---- MODULE Spec2Model ----
(***************************************************************************)
(* SeismicMesh: MeshGenerator.build, the DistMesh relaxation loop of       *)
(* src/SeismicMesh/generation/mesh_generator.py, for 2D bounding boxes.    *)
(*                                                                         *)
(* Numbers.  Coordinates, lengths and forces are fixed-point integers in   *)
(* units of h0/H0 (H0 = 100 units per h0); every float division of the     *)
(* code is an integer division rounded toward zero and every sqrt is the   *)
(* integer square root.  The comparisons of the code against its           *)
(* tolerances (ttol, ptol, geps) are made on the squared quantities, so    *)
(* they are exact on the fixed-point values.                               *)
(*                                                                         *)
(* Indices.  Sequences are 1-based: row i of a numpy array is element i+1  *)
(* here, and a simplex or bar holds 1-based point indices.                 *)
(***************************************************************************)
EXTENDS Integers, Sequences, FiniteSets

(***************************************************************************)
(* Program constants                                                       *)
(***************************************************************************)
H0 == 100             \* h0 = _ef.hmin, the baseline edge length, in units
TtolInv == 10         \* ttol = 0.1 = 1/TtolInv
PtolInv == 1000       \* ptol = 0.001 = 1/PtolInv
DeltatInv == 10       \* deltat = 0.1 = 1/DeltatInv
GepsInv == 10         \* geps = 1e-1 * h0 = h0/GepsInv
L0multNum == 12       \* L0mult = 1 + 0.4/2^(dim-1) = 12/10 for dim = 2
L0multDen == 10
deps == 1             \* the differencing step: the smallest increment

(***************************************************************************)
(* Bounds of the model                                                     *)
(***************************************************************************)
MaxIters == 4         \* loop-body executions explored in one run
MaxCalls == 2         \* calls of build explored by SpecRerun
RngMod == 4           \* states of the pseudo-random generator

(***************************************************************************)
(* Integer arithmetic standing for the float arithmetic                    *)
(***************************************************************************)
Abs(a) == IF a < 0 THEN -a ELSE a

Sign(a) == IF a > 0 THEN 1 ELSE IF a < 0 THEN -1 ELSE 0

Min2(a, b) == IF a < b THEN a ELSE b

\* a / b rounded toward zero (b > 0)
Quot(a, b) == IF a >= 0 THEN a \div b ELSE -((-a) \div b)

RECURSIVE SqrtSearch(_, _, _)
SqrtSearch(n, lo, hi) ==
    IF lo >= hi THEN lo
    ELSE LET mid == (lo + hi + 1) \div 2
         IN IF mid * mid <= n THEN SqrtSearch(n, mid, hi)
            ELSE SqrtSearch(n, lo, mid - 1)

\* np.sqrt on a non-negative value: the integer square root
Sqrt(n) == SqrtSearch(n, 0, 46340)

\* <<q, r>> with a*b = q*c + r and 0 <= r < c, without forming a*b
RECURSIVE MulDivQR(_, _, _)
MulDivQR(a, b, c) ==
    IF b = 0 THEN <<0, 0>>
    ELSE LET h == MulDivQR(a, b \div 2, c)
             r2 == 2 * h[2]
             ra == IF b % 2 = 1 THEN a % c ELSE 0
             qa == IF b % 2 = 1 THEN a \div c ELSE 0
             r3 == (r2 % c) + ra
         IN <<2 * h[1] + (r2 \div c) + qa + (r3 \div c), r3 % c>>

MulDiv(a, b, c) == MulDivQR(a, b, c)[1]

RECURSIVE SumSeq(_)
SumSeq(s) == IF s = <<>> THEN 0 ELSE Head(s) + SumSeq(Tail(s))

(***************************************************************************)
(* The sizing/geometry provider _ef: fd, fh, hmin and bbox.  A provider is *)
(* a record [fd, fh, hmin, bbox]; fd and fh are records naming a           *)
(* piecewise-linear field and its parameters.                              *)
(***************************************************************************)
\* fd(p) for one point: the signed distance field of the provider
fd(ef, pt) ==
    LET f == ef.fd
        x == pt[1]
        y == pt[2]
    IN CASE f.kind = "rect" ->
                -Min2(Min2(Min2(y - f.y1, f.y2 - y), x - f.x1), f.x2 - x)
         [] f.kind = "half" -> x - f.x2
         [] f.kind = "gap" -> f.y2 - Abs(x - f.x2)

\* fh(p) for one point: the target edge length of the provider
fh(ef, pt) ==
    LET f == ef.fh
    IN CASE f.kind = "uniform" -> f.h
         [] f.kind = "linear" -> f.h + Abs(pt[1])

Rect(x1, x2, y1, y2) == [kind |-> "rect", x1 |-> x1, x2 |-> x2, y1 |-> y1, y2 |-> y2]
Half(c) == [kind |-> "half", x1 |-> 0, x2 |-> c, y1 |-> 0, y2 |-> 0]
Gap(c, r) == [kind |-> "gap", x1 |-> 0, x2 |-> c, y1 |-> 0, y2 |-> r]
Uniform == [kind |-> "uniform", h |-> H0]
Linear == [kind |-> "linear", h |-> H0]

(***************************************************************************)
(* numpy helpers of build                                                  *)
(***************************************************************************)
\* a sequence with every element evaluated
Row(s) == s \o <<>>

Add(a, b) == <<a[1] + b[1], a[2] + b[2]>>
Sub(a, b) == <<a[1] - b[1], a[2] - b[2]>>
Norm2(a) == a[1] * a[1] + a[2] * a[2]

\* one axis of np.mgrid[slice(min, max + h0, h0)]: min, min + h0, ... < max + h0
Axis(lo, hi, h) ==
    LET n == IF hi + h - lo <= 0 THEN 0 ELSE (hi + h - lo + h - 1) \div h
    IN Row([i \in 1..n |-> lo + (i - 1) * h])

\* np.mgrid[...].reshape(dim, -1).T for dim = 2: x outer, y inner
Lattice(bbox, h) ==
    LET xs == Axis(bbox[1], bbox[2], h)
        ys == Axis(bbox[3], bbox[4], h)
        ny == Len(ys)
    IN Row([k \in 1..(Len(xs) * ny) |->
              <<xs[((k - 1) \div ny) + 1], ys[((k - 1) % ny) + 1]>>])

\* p[mask]: the rows of s whose index satisfies keep
RECURSIVE SelectIdx(_, _, _)
SelectIdx(s, keep, i) ==
    IF i > Len(s) THEN <<>>
    ELSE (IF keep[i] THEN <<s[i]>> ELSE <<>>) \o SelectIdx(s, keep, i + 1)

Mask(s, keep) == SelectIdx(s, keep, 1)

RowLess(a, b) == a[1] < b[1] \/ (a[1] = b[1] /\ a[2] < b[2])

RECURSIVE SortRows(_)
SortRows(S) ==
    IF S = {} THEN <<>>
    ELSE LET m == CHOOSE a \in S : \A b \in S : a = b \/ RowLess(a, b)
         IN <<m>> \o SortRows(S \ {m})

\* np.unique(p, axis=0): the distinct rows, sorted lexicographically
unique(p) == SortRows({p[i] : i \in DOMAIN p})

(***************************************************************************)
(* The pseudo-random generator behind np.random: a process-wide state,     *)
(* set by np.random.seed and advanced by every draw.                       *)
(***************************************************************************)
SeedState(s) == s % RngMod

RngNext(s) == (5 * s + 3) % RngMod

RECURSIVE RngAfter(_, _)
RngAfter(s, n) == IF n = 0 THEN s ELSE RngAfter(RngNext(s), n - 1)

\* np.random.rand(n): draw i is RngAfter(s, i) / RngMod, in [0, 1)
rand(s, n) == Row([i \in 1..n |-> RngAfter(s, i)])

(***************************************************************************)
(* The triangulation backend: the Delaunay triangulation of the rows of p, *)
(* as a sequence of simplices <<i, j, k>>, i < j < k.  Where four or more  *)
(* points lie on one empty circle the triangulation is not unique; the     *)
(* backend's choice is a fixed policy, tie, of the backend.                *)
(***************************************************************************)
\* twice the signed area of the triangle a, b, c
Orient(a, b, c) ==
    (b[1] - a[1]) * (c[2] - a[2]) - (b[2] - a[2]) * (c[1] - a[1])

\* the sign of x1*Y1 + x2*Y2 + x3*Y3 for |x| < 2^10, |Y| < 2^30, by halves
SignDot3(x, Y) ==
    LET B == 32768
        hi == x[1] * (Y[1] \div B) + x[2] * (Y[2] \div B) + x[3] * (Y[3] \div B)
        lo == x[1] * (Y[1] % B) + x[2] * (Y[2] % B) + x[3] * (Y[3] % B)
        h2 == hi + (lo \div B)
    IN IF h2 # 0 THEN Sign(h2) ELSE Sign(lo % B)

\* > 0 iff d is strictly inside the circle through a, b, c
InCircle(a, b, c, d) ==
    LET A == Sub(a, d)
        Bv == Sub(b, d)
        C == Sub(c, d)
        a2 == Norm2(A)
        b2 == Norm2(Bv)
        c2 == Norm2(C)
        det == SignDot3(<<A[1], -Bv[1], C[1]>>,
                        <<Bv[2] * c2 - C[2] * b2,
                          A[2] * c2 - C[2] * a2,
                          A[2] * b2 - Bv[2] * a2>>)
    IN det * Sign(Orient(a, b, c))

\* the segments a-b and c-d cross in a point interior to both
Cross(a, b, c, d) ==
    /\ Sign(Orient(a, b, c)) * Sign(Orient(a, b, d)) < 0
    /\ Sign(Orient(c, d, a)) * Sign(Orient(c, d, b)) < 0

Edges3(s) == {<<s[1], s[2]>>, <<s[2], s[3]>>, <<s[1], s[3]>>}

Overlap(p, s1, s2) ==
    \E e \in Edges3(s1), g \in Edges3(s2) :
        Cross(p[e[1]], p[e[2]], p[g[1]], p[g[2]])

\* the simplices no point lies strictly inside the circumcircle of
Empty(p) ==
    LET n == Len(p)
        all == UNION {UNION {{<<i, j, k>> : k \in (j + 1)..n} : j \in (i + 1)..n} : i \in 1..n}
    IN {s \in all :
          /\ Orient(p[s[1]], p[s[2]], p[s[3]]) # 0
          /\ \A m \in DOMAIN p \ {s[1], s[2], s[3]} :
                InCircle(p[s[1]], p[s[2]], p[s[3]], p[m]) <= 0}

SimplexLess(a, b) ==
    \/ a[1] < b[1]
    \/ a[1] = b[1] /\ a[2] < b[2]
    \/ a[1] = b[1] /\ a[2] = b[2] /\ a[3] < b[3]

\* the order in which the backend settles a tie: by index, or widest first
Before(tie, a, b) ==
    IF tie = "first" THEN SimplexLess(a, b)
    ELSE \/ a[3] - a[1] > b[3] - b[1]
         \/ a[3] - a[1] = b[3] - b[1] /\ SimplexLess(a, b)

RECURSIVE SortSimplices(_, _)
SortSimplices(tie, S) ==
    IF S = {} THEN <<>>
    ELSE LET m == CHOOSE a \in S : \A b \in S : a = b \/ Before(tie, a, b)
         IN <<m>> \o SortSimplices(tie, S \ {m})

\* keep each candidate that overlaps none kept before it
RECURSIVE Pick(_, _, _)
Pick(p, cands, acc) ==
    IF cands = <<>> THEN acc
    ELSE LET c == Head(cands)
         IN Pick(p, Tail(cands),
                 IF \E a \in acc : Overlap(p, a, c) THEN acc ELSE acc \cup {c})

\* spspatial.Delaunay(p).vertices, c_cgal.delaunay2(p[:, 0], p[:, 1])
Delaunay(p, tie) ==
    SortSimplices("first", Pick(p, SortSimplices(tie, Empty(p)), {}))

\* the backend rejects an input with no simplex at all (fewer than dim + 1
\* points, or all of them on one line)
Flat(p) ==
    \A i, j, k \in DOMAIN p : Orient(p[i], p[j], p[k]) = 0

(***************************************************************************)
(* State                                                                   *)
(***************************************************************************)
VARIABLES
    ef,         \* self.SizingFunction: the provider [fd, fh, hmin, bbox]
    method,     \* self.method
    c_cgal,     \* whether the module's import of c_cgal succeeded
    tie,        \* the backend's tie policy
    rng,        \* the state of np.random
    pfix,       \* build's arguments: None or Some(rows)
    max_iter,
    seed,       \* None or Some(n)
    pc,         \* "idle", "loop", "done" (returned p, t) or "raised"
    error,      \* the exception build raised and the line that raised it
    nfix, N, p, pold, t, bars, count, Ftot, maxdp2,  \* build's locals
    evals,      \* what steps 1-2 of the call evaluated: the lattice, fd, fh
    iters,      \* loop bodies the call has started
    retri,      \* whether the last loop body retriangulated
    nretri,     \* retriangulations of the call
    calls,      \* calls of build made
    rng0,       \* the state of np.random when the call was made
    prev        \* how the previous call started and ended

cfg == <<ef, method, c_cgal, tie>>
args == <<pfix, max_iter, seed>>
locals == <<nfix, N, p, pold, t, bars, count, Ftot, maxdp2>>
vars == <<ef, method, c_cgal, tie, rng, pfix, max_iter, seed, pc, error,
          nfix, N, p, pold, t, bars, count, Ftot, maxdp2,
          evals, iters, retri, nretri, calls, rng0, prev>>

None == <<>>
Some(v) == <<v>>

NoError == [type |-> "none", line |-> 0]
Raised(type, line) == [type |-> type, line |-> line]

Inf == [inf |-> TRUE, rows |-> <<>>]      \* pold = float("inf")
Rows(r) == [inf |-> FALSE, rows |-> r]

h0 == ef.hmin
dim == Len(ef.bbox) \div 2                \* int(len(bbox) / 2)

geps == h0 \div GepsInv                   \* geps = 1e-1 * h0

(***************************************************************************)
(* Steps 1-2 of build: the lattice, the rejection method, the fixed points *)
(***************************************************************************)
\* p[fd(p) < geps]
Inside(lat) == Mask(lat, Row([i \in DOMAIN lat |-> fd(ef, lat[i]) < geps]))

MinOf(r) == CHOOSE m \in {r[i] : i \in DOMAIN r} : \A i \in DOMAIN r : m <= r[i]

\* p[np.random.rand(p.shape[0]) < r0.min() ** dim / r0 ** dim], dim = 2
Retained(pts, r0, u) ==
    LET m == MinOf(r0)
    IN Mask(pts, Row([i \in DOMAIN pts |-> u[i] * r0[i] * r0[i] < m * m * RngMod]))

\* the seed argument ignored: the generator is left as the process left it
Seeded_unseeded(sd, s) == s

\* np.random.seed(seed) when seed is not None
Seeded(sd, s) == IF sd # None THEN SeedState(sd[1]) ELSE s

build(pf, mi, sd) ==
    LET rng1 == Seeded(sd, rng)
        fixed == IF pf # None THEN pf[1] ELSE <<>>
        lat == Lattice(ef.bbox, h0)
        pin == Inside(lat)
        r0 == Row([i \in DOMAIN pin |-> fh(ef, pin[i])])
        u == rand(rng1, Len(pin))
        p0 == fixed \o Retained(pin, r0, u)
        raise(e, s, ev) ==
            /\ pc' = "raised"
            /\ error' = e
            /\ rng' = s
            /\ evals' = ev
            /\ nfix' = 0 /\ N' = 0 /\ p' = <<>>
        none == [lattice |-> FALSE, fd |-> 0, fh |-> 0]
        both == [lattice |-> TRUE, fd |-> 1, fh |-> 1]
    IN /\ pfix' = pf /\ max_iter' = mi /\ seed' = sd
       /\ calls' = calls + 1
       /\ rng0' = rng
       /\ prev' = IF calls = 0 THEN None
                  ELSE Some([pc |-> pc, error |-> error, p |-> p, t |-> t,
                             rng0 |-> rng0])
       /\ iters' = 0 /\ retri' = FALSE /\ nretri' = 0
       /\ pold' = Inf /\ t' = <<>> /\ bars' = <<>> /\ count' = 0
       /\ Ftot' = <<>> /\ maxdp2' = 0
       /\ UNCHANGED cfg
       /\ IF Len(ef.bbox) % 2 # 0
          THEN \* bbox.reshape(-1, 2)
               raise(Raised("ValueError", 118), rng1, none)
          ELSE IF pin = <<>>
          THEN \* r0.min() of an empty array
               raise(Raised("ValueError", 142), rng1, both)
          ELSE IF \E i \in DOMAIN fixed : Len(fixed[i]) # dim
          THEN \* np.vstack of rows of different widths
               raise(Raised("ValueError", 141), RngAfter(rng1, Len(pin)), both)
          ELSE /\ pc' = "loop"
               /\ error' = NoError
               /\ rng' = RngAfter(rng1, Len(pin))
               /\ evals' = both
               /\ nfix' = Len(fixed)
               /\ p' = p0
               /\ N' = Len(p0)

(***************************************************************************)
(* Steps 3-4: the retriangulation trigger, the interior simplices, the     *)
(* bars                                                                    *)
(***************************************************************************)
\* dist(p1, p2) ** 2 for one row
dist2(a, b) == Norm2(Sub(a, b))

\* a loop that retriangulates on every pass
LargeMovement_always(q, qold) == TRUE

\* (dist(p, pold) / h0).max() > ttol; pold = inf on the first pass
LargeMovement(q, qold) ==
    \/ qold.inf
    \/ \E i \in DOMAIN q : dist2(q[i], qold.rows[i]) * TtolInv * TtolInv > h0 * h0

\* pmid = p[t].sum(1) / (dim + 1) for one simplex
Centroid(q, s) ==
    <<Quot(q[s[1]][1] + q[s[2]][1] + q[s[3]][1], 3),
      Quot(q[s[1]][2] + q[s[2]][2] + q[s[3]][2], 3)>>

\* t[fd(pmid) < -geps]
InteriorSimplices(q, tq) ==
    Mask(tq, Row([k \in DOMAIN tq |-> fd(ef, Centroid(q, tq[k])) < -geps]))

\* the column pairs without the closing pair [2, 0]
BarColumns_open(d) ==
    IF d = 2 THEN <<<<1, 2>>, <<2, 3>>>>
    ELSE <<<<1, 2>>, <<2, 3>>, <<1, 4>>, <<2, 4>>, <<3, 4>>>>

\* the column pairs build concatenates, per dimension
BarColumns(d) ==
    IF d = 2 THEN <<<<1, 2>>, <<2, 3>>, <<3, 1>>>>
    ELSE <<<<1, 2>>, <<2, 3>>, <<3, 1>>, <<1, 4>>, <<2, 4>>, <<3, 4>>>>

\* np.concatenate([t[:, [0, 1]], t[:, [1, 2]], ...]) then np.sort(bars, axis=1)
SortedBars(d, tq) ==
    LET cols == BarColumns(d)
        nt == Len(tq)
    IN Row([k \in 1..(Len(cols) * nt) |->
              LET c == cols[((k - 1) \div nt) + 1]
                  s == tq[((k - 1) % nt) + 1]
                  a == s[c[1]]
                  b == s[c[2]]
              IN IF a <= b THEN <<a, b>> ELSE <<b, a>>])

\* mutils.unique_rows: the distinct rows, sorted
unique_rows(A) == SortRows({A[i] : i \in DOMAIN A})

BarsOf(d, tq) == unique_rows(SortedBars(d, tq))

(***************************************************************************)
(* Step 6: bar lengths, forces, the force accumulator                      *)
(***************************************************************************)
\* Fvec: the force of each bar, as a vector along the bar
BarForces(q, bq) ==
    LET barvec == Row([k \in DOMAIN bq |-> Sub(q[bq[k][1]], q[bq[k][2]])])
        L == Row([k \in DOMAIN bq |-> Sqrt(Norm2(barvec[k]))])
        hbars == Row([k \in DOMAIN bq |->
                        fh(ef, <<Quot(q[bq[k][1]][1] + q[bq[k][2]][1], 2),
                                 Quot(q[bq[k][1]][2] + q[bq[k][2]][2], 2)>>)])
        sumL == SumSeq([k \in DOMAIN bq |-> L[k] * L[k]])
        sumH == SumSeq([k \in DOMAIN bq |-> hbars[k] * hbars[k]])
        scale == Sqrt(MulDiv(sumL, 10000, sumH))       \* 100 * sqrt(sumL / sumH)
        L0 == Row([k \in DOMAIN bq |->
                     (hbars[k] * L0multNum * scale) \div (L0multDen * 100)])
        F == Row([k \in DOMAIN bq |-> IF L0[k] - L[k] < 0 THEN 0 ELSE L0[k] - L[k]])
    IN Row([k \in DOMAIN bq |->
              <<Quot(F[k] * barvec[k][1], L[k]), Quot(F[k] * barvec[k][2], L[k])>>])

RECURSIVE SumOver(_, _, _)
SumOver(f, S, c) ==
    IF S = {} THEN 0
    ELSE LET k == CHOOSE x \in S : TRUE
         IN f[k][c] + SumOver(f, S \ {k}, c)

\* mutils.dense(bars[:, [0]*dim + [1]*dim], ..., hstack((Fvec, -Fvec)),
\* shape=(N, dim)): row i sums +Fvec of the bars that start at i and -Fvec of
\* the bars that end at i
dense(bq, Fvec, n) ==
    Row([i \in 1..n |->
           LET from == {k \in DOMAIN bq : bq[k][1] = i}
               to == {k \in DOMAIN bq : bq[k][2] = i}
           IN <<SumOver(Fvec, from, 1) - SumOver(Fvec, to, 1),
                SumOver(Fvec, from, 2) - SumOver(Fvec, to, 2)>>])

\* Ftot[:nfix] = 0
ZeroFixed(F, nf) == Row([i \in DOMAIN F |-> IF i <= nf THEN <<0, 0>> ELSE F[i]])

\* p += deltat * Ftot
Moved(q, F) ==
    Row([i \in DOMAIN q |->
           <<q[i][1] + Quot(F[i][1], DeltatInv), q[i][2] + Quot(F[i][2], DeltatInv)>>])

(***************************************************************************)
(* Step 7: bring outside points back to the boundary                       *)
(***************************************************************************)
deps_vec(i) == IF i = 1 THEN <<deps, 0>> ELSE <<0, deps>>

\* one row of p[ix] -= (d[ix] * np.vstack(dgrads) / dgrad2).T
ProjectRow(pt) ==
    LET d == fd(ef, pt)
        dgrads == <<Quot(fd(ef, Add(pt, deps_vec(1))) - d, deps),
                    Quot(fd(ef, Add(pt, deps_vec(2))) - d, deps)>>
        sq == dgrads[1] * dgrads[1] + dgrads[2] * dgrads[2]
        dgrad2 == IF sq < deps THEN deps ELSE sq
    IN <<pt[1] - Quot(d * dgrads[1], dgrad2), pt[2] - Quot(d * dgrads[2], dgrad2)>>

Projected(q) ==
    Row([i \in DOMAIN q |-> IF fd(ef, q[i]) > 0 THEN ProjectRow(q[i]) ELSE q[i]])

(***************************************************************************)
(* Step 8: termination                                                     *)
(***************************************************************************)
\* the rows of Ftot[d < -geps], d = fd(p) taken before the projection
InteriorRows(q) == {i \in DOMAIN q : fd(ef, q[i]) < -geps}

\* (maxdp / deltat) ** 2 = max of (Ftot[d < -geps] ** 2).sum(1)
MaxForce2(F, rows) ==
    CHOOSE m \in {Norm2(F[i]) : i \in rows} : \A i \in rows : Norm2(F[i]) <= m

\* maxdp < ptol * h0, on the squares
Converged(m2) ==
    m2 <= (h0 * h0 * DeltatInv * DeltatInv - 1) \div (PtolInv * PtolInv)

(***************************************************************************)
(* One pass of the body of build's while loop                              *)
(***************************************************************************)
iteration ==
    /\ pc = "loop"
    /\ iters < MaxIters
    /\ \E moved \in {LargeMovement(p, pold)} :
       \E p1 \in {IF moved THEN unique(p) ELSE p} :
       \E t1 \in {IF moved THEN InteriorSimplices(p1, Delaunay(p1, tie)) ELSE t} :
       \E bars1 \in {IF moved THEN BarsOf(dim, t1) ELSE bars} :
       \E F \in {ZeroFixed(dense(bars1, BarForces(p1, bars1), N), nfix)} :
       \E p2 \in {IF Len(p1) = N THEN Moved(p1, F) ELSE p1} :
       \E rows \in {InteriorRows(p2)} :
          /\ iters' = iters + 1
          /\ retri' = moved
          /\ nretri' = IF moved THEN nretri + 1 ELSE nretri
          /\ pold' = IF moved THEN Rows(p1) ELSE pold
          /\ UNCHANGED <<cfg, args, rng, nfix, N, evals, calls, rng0, prev>>
          /\ IF moved /\ method = "cgal" /\ ~c_cgal
             THEN \* line 166: the name c_cgal is not defined
                  /\ pc' = "raised"
                  /\ error' = Raised("NameError", 166)
                  /\ p' = p1
                  /\ UNCHANGED <<t, bars, Ftot, count, maxdp2>>
             ELSE IF moved /\ method = "qhull" /\ Flat(p1)
             THEN \* line 163: qhull has no initial simplex
                  /\ pc' = "raised"
                  /\ error' = Raised("QhullError", 163)
                  /\ p' = p1
                  /\ UNCHANGED <<t, bars, Ftot, count, maxdp2>>
             ELSE IF Len(p1) # N
             THEN \* line 226: p of Len(p1) rows += Ftot of N rows
                  /\ pc' = "raised"
                  /\ error' = Raised("ValueError", 226)
                  /\ p' = p1 /\ t' = t1 /\ bars' = bars1 /\ Ftot' = F
                  /\ UNCHANGED <<count, maxdp2>>
             ELSE IF rows = {}
             THEN \* line 244: .max() of an empty array
                  /\ pc' = "raised"
                  /\ error' = Raised("ValueError", 244)
                  /\ p' = Projected(p2) /\ t' = t1 /\ bars' = bars1 /\ Ftot' = F
                  /\ UNCHANGED <<count, maxdp2>>
             ELSE \E m2 \in {MaxForce2(F, rows)} :
                  /\ error' = NoError
                  /\ p' = Projected(p2) /\ t' = t1 /\ bars' = bars1 /\ Ftot' = F
                  /\ maxdp2' = m2
                  /\ IF Converged(m2) \/ count = max_iter - 1
                     THEN pc' = "done" /\ count' = count
                     ELSE pc' = "loop" /\ count' = count + 1

(***************************************************************************)
(* The inputs explored                                                     *)
(***************************************************************************)
Provider(f, g, b) == [fd |-> f, fh |-> g, hmin |-> H0, bbox |-> b]

Square == <<0, H0, 0, H0>>
Strip == <<0, 3 * H0, 0, H0>>

Providers ==
    { Provider(Rect(0, H0, 0, H0), Uniform, Square),        \* the box itself
      Provider(Half(3 * H0), Uniform, Square),              \* all of it interior
      Provider(Half(3 * H0), Linear, Square),               \* graded sizing
      Provider(Gap(150, 85), Uniform, Strip),               \* two parts, a wide gap
      Provider(Gap(150, 145), Uniform, Strip),              \* only boundary points
      Provider(Half(-H0), Uniform, Square),                 \* no point inside
      Provider(Half(3 * H0), Uniform, <<0, H0, 0>>) }       \* a bbox of odd length

PfixArgs ==
    { None,
      Some(<<<<40, 50>>>>),
      Some(<<<<140, 50>>>>),
      Some(<<<<0, 0>>>>),
      Some(<<<<40, 50, 0>>>>) }

MaxIterArgs == (-1)..3

SeedArgs == {None, Some(1)}

Idle ==
    /\ pfix = None /\ max_iter = 0 /\ seed = None
    /\ pc = "idle" /\ error = NoError
    /\ nfix = 0 /\ N = 0 /\ p = <<>> /\ pold = Inf /\ t = <<>> /\ bars = <<>>
    /\ count = 0 /\ Ftot = <<>> /\ maxdp2 = 0
    /\ evals = [lattice |-> FALSE, fd |-> 0, fh |-> 0]
    /\ iters = 0 /\ retri = FALSE /\ nretri = 0 /\ calls = 0
    /\ rng0 = rng /\ prev = None

Init ==
    /\ ef \in Providers
    /\ method \in {"qhull", "cgal"}
    /\ c_cgal \in BOOLEAN
    /\ tie \in {"first", "widest"}
    /\ rng \in 0..(RngMod - 1)
    /\ Idle

\* a caller calls build
call ==
    /\ pc = "idle"
    /\ \E pf \in PfixArgs, mi \in MaxIterArgs, sd \in SeedArgs : build(pf, mi, sd)

Next == call \/ iteration

Spec == Init /\ [][Next]_vars

(***************************************************************************)
(* Two calls of build with the same arguments on the same generator, and   *)
(* other draws from np.random between them.                                *)
(***************************************************************************)
Finished == pc \in {"done", "raised"}

InitRerun ==
    /\ ef \in Providers
    /\ method = "qhull"
    /\ c_cgal = TRUE
    /\ tie \in {"first", "widest"}
    /\ rng \in 0..(RngMod - 1)
    /\ Idle

first ==
    /\ pc = "idle"
    /\ \E pf \in {None, Some(<<<<40, 50>>>>)}, mi \in 1..2, sd \in SeedArgs :
          build(pf, mi, sd)

\* the caller calls build again, with the arguments of the call before
again ==
    /\ Finished
    /\ calls < MaxCalls
    /\ build(pfix, max_iter, seed)

\* other code of the process draws from np.random
draw ==
    /\ Finished
    /\ calls < MaxCalls
    /\ rng' = RngNext(rng)
    /\ UNCHANGED <<cfg, args, pc, error, locals, evals, iters, retri, nretri,
                   calls, rng0, prev>>

NextRerun == first \/ again \/ draw \/ iteration

SpecRerun == InitRerun /\ [][NextRerun]_vars

(***************************************************************************)
(* Step 4 alone, on filtered simplex lists of 2D and 3D meshes             *)
(***************************************************************************)
BarNodes == 4         \* points of a 2D list; a 3D list has one more
MaxRows == 2          \* simplices of a list

Reverse(s) == [i \in DOMAIN s |-> s[Len(s) + 1 - i]]

\* the vertex orders a backend may give a simplex in
Oriented(s, o) ==
    CASE o = "ascending" -> s
      [] o = "rotated" -> Tail(s) \o <<Head(s)>>
      [] o = "reversed" -> Row(Reverse(s))

SimplexRows(d) ==
    LET n == BarNodes + d - 2
        asc == {s \in [1..(d + 1) -> 1..n] : \A i \in 1..d : s[i] < s[i + 1]}
    IN {Oriented(Row(s), o) : s \in asc, o \in {"ascending", "rotated", "reversed"}}

Vertices(s) == {s[i] : i \in DOMAIN s}

\* lists of simplices, no two on the same vertices
SimplexLists(d) ==
    {Row(l) : l \in {l \in UNION {[1..m -> SimplexRows(d)] : m \in 0..MaxRows} :
                       \A i, j \in DOMAIN l : i # j => Vertices(l[i]) # Vertices(l[j])}}

Box3 == <<0, H0, 0, H0, 0, H0>>

InitBars ==
    /\ ef \in {Provider(Half(3 * H0), Uniform, Square), Provider(Half(3 * H0), Uniform, Box3)}
    /\ method = "qhull"
    /\ c_cgal = TRUE
    /\ tie = "first"
    /\ rng = 0
    /\ Idle

\* the backend returned, and the filter kept, some simplex list
filtered ==
    /\ pc = "idle"
    /\ \E tq \in SimplexLists(dim) :
          /\ t' = tq
          /\ pc' = "filtered"
          /\ UNCHANGED <<cfg, args, rng, error, nfix, N, p, pold, bars, count, Ftot,
                         maxdp2, evals, iters, retri, nretri, calls, rng0, prev>>

\* lines 175-190 of build
describe_bars ==
    /\ pc = "filtered"
    /\ bars' = BarsOf(dim, t)
    /\ pc' = "bars"
    /\ UNCHANGED <<cfg, args, rng, error, nfix, N, p, pold, t, count, Ftot,
                   maxdp2, evals, iters, retri, nretri, calls, rng0, prev>>

NextBars == filtered \/ describe_bars

SpecBars == InitBars /\ [][NextBars]_vars

(***************************************************************************)
(* The claims                                                              *)
(***************************************************************************)
Started == pc \in {"loop", "done"} /\ iters >= 1

FixedRows == IF pfix = None THEN <<>> ELSE pfix[1]

\* C1: with nfix >= 1 fixed points, after every iteration the first nfix rows
\* of the point set are the caller's fixed points, and every fixed coordinate
\* is a row of the returned point set.
C1_FixedPointsKept ==
    (Started /\ nfix >= 1) =>
        /\ \A i \in 1..nfix : i \in DOMAIN p /\ p[i] = FixedRows[i]
        /\ pc = "done" => \A i \in 1..nfix : \E j \in DOMAIN p : p[j] = FixedRows[i]

\* C1, the case reached: a call with a fixed point has passed a loop body
C1_Reached == Started /\ nfix >= 1

\* C2: for every max_iter, zero and negative ones included, the loop runs at
\* most max_iter bodies.
C2_AtMostMaxIter ==
    pc \in {"loop", "done"} => iters <= (IF max_iter < 0 THEN 0 ELSE max_iter)

\* C2, the case reached: a loop that is still running after more bodies than
\* the budget allows
C2_Reached == pc = "loop" /\ iters = MaxIters /\ max_iter <= 0

\* C3: every returned simplex has a centroid, taken from the returned
\* positions, of signed distance below geps.
C3_ReturnedCentroidsInside ==
    pc = "done" => \A k \in DOMAIN t : fd(ef, Centroid(p, t[k])) < geps

\* C3, the case reached: a mesh returned after its points were displaced
C3_Reached == pc = "done" /\ t # <<>> /\ pold.rows # p

\* C4: with method 'cgal' and the CGAL backend not imported, build
\* triangulates with qhull and does not fail for the missing backend.
C4_FallsBackToQhull ==
    (method = "cgal" /\ ~c_cgal /\ iters >= 1) =>
        /\ error.type # "NameError"
        /\ nretri >= 1 /\ ~Flat(pold.rows) =>
              t = InteriorSimplices(pold.rows, Delaunay(pold.rows, tie))

\* C4, the case reached: the loop's first body with 'cgal' selected and the
\* backend missing
C4_Reached == method = "cgal" /\ ~c_cgal /\ iters >= 1

Mismatch == \E i \in DOMAIN FixedRows : Len(FixedRows[i]) # dim

\* C5: fixed points of another dimension than the bounding box, or a bounding
\* box of odd length, are rejected before the lattice is generated and before
\* fd or fh is evaluated.
C5_RejectedBeforeSeeding ==
    (calls >= 1 /\ (Mismatch \/ Len(ef.bbox) % 2 # 0)) =>
        /\ pc = "raised"
        /\ evals = [lattice |-> FALSE, fd |-> 0, fh |-> 0]

\* C5, the case reached: a call with fixed points of three coordinates on a
\* bounding box of two dimensions
C5_Reached == calls >= 1 /\ Mismatch /\ Len(ef.bbox) = 4

ZeroForces == \A i \in DOMAIN Ftot : Ftot[i] = <<0, 0>>

\* C6: when a triangulation step leaves zero simplices, build does not raise:
\* the bars are empty, every force is zero, the maximum displacement is zero
\* and the loop ends returning an empty simplex list. (The two failures of
\* the other claims, lines 166 and 226, are set aside.)
C6_ZeroSimplicesHandled ==
    (iters >= 1 /\ retri /\ t = <<>> /\ error.line \notin {166, 226}) =>
        /\ error = NoError
        /\ pc = "done"
        /\ bars = <<>>
        /\ ZeroForces
        /\ maxdp2 = 0

\* C6, the case reached: zero simplices, handled as the claim says
C6_Reached == iters >= 1 /\ retri /\ t = <<>> /\ pc = "done" /\ bars = <<>>

\* C7: two calls with the same provider, fixed points, backend and seed (not
\* None) end the same way, with the same points and the same simplices,
\* whatever np.random was drawn before each.
C7_SameSeedSameOutput ==
    (calls >= 2 /\ Finished /\ seed # None) =>
        /\ prev # None
        /\ prev[1].pc = pc
        /\ prev[1].error = error
        /\ prev[1].p = p
        /\ prev[1].t = t

\* C7, the case reached: two seeded calls that started from different states
\* of np.random, on a graded sizing field, both returning a mesh
C7_Reached ==
    /\ calls >= 2 /\ pc = "done" /\ seed # None /\ prev # None
    /\ prev[1].rng0 # rng0
    /\ ef.fh.kind = "linear"
    /\ t # <<>>

Pair(b) == {b[1], b[2]}

\* C8: the bars of a filtered simplex list, 2D or 3D: smaller index first, no
\* bar from a vertex to itself, no undirected pair twice, and all the
\* dim*(dim+1)/2 edges of every simplex (and nothing else).
C8_BarsAreTheEdges ==
    pc = "bars" =>
        /\ \A k \in DOMAIN bars : Len(bars[k]) = 2 /\ bars[k][1] < bars[k][2]
        /\ \A j, k \in DOMAIN bars : j # k => Pair(bars[j]) # Pair(bars[k])
        /\ \A s \in DOMAIN t :
              LET edges == {e \in SUBSET Vertices(t[s]) : Cardinality(e) = 2}
              IN /\ Cardinality(edges) = (dim * (dim + 1)) \div 2
                 /\ \A e \in edges : \E k \in DOMAIN bars : Pair(bars[k]) = e
        /\ \A k \in DOMAIN bars : \E s \in DOMAIN t : Pair(bars[k]) \subseteq Vertices(t[s])

\* C8, the case reached: two tetrahedra on a common face, the first not in
\* ascending order
C8_Reached ==
    /\ pc = "bars" /\ dim = 3 /\ Len(t) = 2
    /\ Len(bars) = 9
    /\ t[1][1] > t[1][2]

\* the trigger of C9 in the claim's words: the largest displacement since the
\* snapshot, over h0, is more than 0.1 (the snapshot of the first pass is inf)
Exceeds(q, qold) ==
    \/ qold.inf
    \/ \E i \in DOMAIN q :
          /\ \A j \in DOMAIN q : dist2(q[j], qold.rows[j]) <= dist2(q[i], qold.rows[i])
          /\ 100 * dist2(q[i], qold.rows[i]) > h0 * h0

\* C9: a loop body retriangulates iff the trigger fires; the first body
\* always does; a body that does not leaves pOld, t and bars as they are and
\* computes the forces from those bars.
C9_step ==
    (pc = "loop" /\ iters' = iters + 1) =>
        /\ retri' = Exceeds(p, pold)
        /\ iters = 0 => retri'
        /\ retri' => pold' = Rows(unique(p))
        /\ (retri' /\ error'.line \notin {163, 166}) =>
              /\ t' = InteriorSimplices(pold'.rows, Delaunay(pold'.rows, tie))
              /\ bars' = BarsOf(dim, t')
        /\ ~retri' =>
              /\ pold' = pold /\ t' = t /\ bars' = bars
              /\ Ftot' = ZeroFixed(dense(bars, BarForces(p, bars), N), nfix)

C9_RetriangulateIffMoved == [][C9_step]_vars

\* C9, the case reached: a body that kept the stale bars, after a second
\* retriangulation
C9_Reached == iters >= 3 /\ nretri >= 2 /\ ~retri /\ error = NoError

ValidIndices ==
    /\ \A k \in DOMAIN t : \A c \in DOMAIN t[k] : t[k][c] \in DOMAIN p
    /\ \A k \in DOMAIN bars : \A c \in DOMAIN bars[k] : bars[k][c] \in DOMAIN p

\* C10: at every force assembly N is the number of points, the accumulator
\* has one row per point, and every index of t and of bars is a row of p.
\* (A body whose triangulation raised assembled no forces.)
C10_CountMatchesPoints ==
    (iters >= 1 /\ error.line \notin {163, 166}) =>
        /\ N = Len(p)
        /\ Len(Ftot) = Len(p)
        /\ ValidIndices

\* C10, the case reached: a body that removed a coincident point
C10_Reached == iters >= 1 /\ error.line \notin {163, 166} /\ Len(p) < N

====
